---- MODULE Spec2Model ----
(***************************************************************************)
(* Model of src/BESS.py: the BESS analysis script.  One run of the script  *)
(* reads the uploaded table, reads the widgets, lets scipy's minimize call *)
(* objective_function on candidate (power, capacity) pairs, replays the    *)
(* dispatch with the returned pair (the canonical dispatch loop), counts   *)
(* full cycles, and reports (daily profile, monthly totals, export).       *)
(*                                                                         *)
(* Numbers.  The script computes with floats; the model computes with      *)
(* exact rationals in fixed point.  Every energy or power is an integer    *)
(* number of 1/Unit MWh (MW); slider values (efficiency and the two charge *)
(* fractions) are integer numbers of slider steps, 1/SliderDen.  The input *)
(* sets are chosen so that every product and quotient the script forms is  *)
(* exact in these units (ExactArithmetic checks it).  Float rounding is    *)
(* not modelled.  The three float values that are not numbers are modelled *)
(* where the script can produce them (efficiency = 0): see Fin, NaN.       *)
(***************************************************************************)
EXTENDS Integers, Sequences, FiniteSets, TLC

\* ---------------------------------------------------------------- bounds
\* longest short slack series drawn in Init
MaxLen == 3
\* number of objective evaluations the solver makes before it returns
MaxEvals == 2

\* ------------------------------------------------------- number encoding
\* energies and powers are counted in quarters of a MWh (MW)
Unit == 4
\* st.slider(..., min_value=0.0, max_value=1.0, step=0.01): hundredths
SliderDen == 100

\* --------------------------------------------------- program constants
hours_per_day == 24
days_per_year == 365
days_per_month == 30
months_per_year == 12

\* ------------------------------------------------------------ input sets
\* slack values of the CSV column: -9, -5, 0, 5, 9 MW
SlackVals == {-9 * Unit, -5 * Unit, 0, 5 * Unit, 9 * Unit}
\* powers the MW input and the solver's candidates take: 0, 3, 10 MW
PowerVals == {0, 3 * Unit, 10 * Unit}
\* capacities the solver's candidates take: 5, 10 MWh
CapVals == {5 * Unit, 10 * Unit}
\* the MWh input: 10 MWh
MWhVals == {10 * Unit}
\* the efficiency slider: 0.00, 0.50, 1.00
EffVals == {0, 50, 100}
\* the two charge sliders: 0.10, 0.90
PctVals == {10, 90}

VARIABLES
  pc,                   \* position of the script
  csv,                  \* the upload: "none", "unreadable", "noslack", "ok"
  error_reported,       \* st.error was called
  slack_values,         \* df['Slack'].values
  MW, MWh, efficiency, min_bess_charge_percent, max_bess_charge_percent,
  min_bess_charge, max_bess_charge,
  \* --- minimize and the frame of one objective_function call
  evals,                \* objective evaluations made so far
  params,               \* the candidate <<peak_discharge_rate, bess_capacity>>
  bess_charge, lack_of_energy, excess_of_energy,
  oi,                   \* number of slack values the objective's loop has consumed
  bess_np,              \* bess_charge is a numpy scalar (else a Python float)
  fval,                 \* the value objective_function returned last
  result_x,             \* result.x
  result_success,       \* result.success, the solver's convergence flag
  \* --- canonical dispatch loop
  bess_values, energy_flow_values, cycle_count, in_discharge_cycle,
  last_bess_charge,
  i,                    \* number of slack values the dispatch loop has consumed
  last_np,              \* last_bess_charge is a numpy scalar (else a Python float)
  \* --- report
  report                \* what lines 118-194 produced

vars == <<pc, csv, error_reported, slack_values, MW, MWh, efficiency,
          min_bess_charge_percent, max_bess_charge_percent,
          min_bess_charge, max_bess_charge,
          evals, params, bess_charge, lack_of_energy, excess_of_energy, oi,
          bess_np, fval, result_x, result_success,
          bess_values, energy_flow_values, cycle_count, in_discharge_cycle,
          last_bess_charge, i, last_np, report>>

inputVars == <<csv, slack_values, MW, MWh, efficiency,
               min_bess_charge_percent, max_bess_charge_percent>>
objVars == <<params, bess_charge, lack_of_energy, excess_of_energy, oi, bess_np>>
loopVars == <<bess_values, energy_flow_values, cycle_count, in_discharge_cycle,
              last_bess_charge, i, last_np>>

\* ------------------------------------------------------------- floats
\* A float where the script can produce a value that is no number
\* (division by efficiency = 0): k = "fin" with value v, "inf" (+infinity),
\* "ninf" (-infinity) or "nan".
Fin(v) == [k |-> "fin", v |-> v]
PosInf == [k |-> "inf", v |-> 0]
NegInf == [k |-> "ninf", v |-> 0]
NaN == [k |-> "nan", v |-> 0]

\* -x
FNeg(x) ==
  CASE x.k = "fin" -> Fin(-x.v)
    [] x.k = "inf" -> NegInf
    [] x.k = "ninf" -> PosInf
    [] OTHER -> NaN

\* x + y
FAdd(x, y) ==
  IF x.k = "nan" \/ y.k = "nan" THEN NaN
  ELSE IF x.k = "fin" /\ y.k = "fin" THEN Fin(x.v + y.v)
  ELSE IF x.k = "fin" THEN y
  ELSE IF y.k = "fin" THEN x
  ELSE IF x.k = y.k THEN x
  ELSE NaN

\* x - y
FSub(x, y) == FAdd(x, FNeg(y))

\* abs(x) on floats
FAbs(x) ==
  CASE x.k = "fin" -> Fin(IF x.v < 0 THEN -x.v ELSE x.v)
    [] x.k = "nan" -> NaN
    [] OTHER -> PosInf

\* x > 0 and x < 0 on floats (every comparison with nan is false)
FPos(x) == (x.k = "fin" /\ x.v > 0) \/ x.k = "inf"
FNegative(x) == (x.k = "fin" /\ x.v < 0) \/ x.k = "ninf"

abs(x) == IF x < 0 THEN -x ELSE x

\* Python's min(a, b): the first of the smallest
Min2(a, b) == IF b < a THEN b ELSE a
\* Python's min(a, b, c)
Min3(a, b, c) == Min2(Min2(a, b), c)

\* x * efficiency
MulEff(x) == (x * efficiency) \div SliderDen
\* x / efficiency for a numpy scalar x: numpy divides by 0.0 without raising
DivEff(x) ==
  IF efficiency # 0 THEN Fin((x * SliderDen) \div efficiency)
  ELSE IF x > 0 THEN PosInf
  ELSE IF x < 0 THEN NegInf
  ELSE NaN

\* fraction * MWh (lines 30-31)
ChargeOf(percent, mwh) == (percent * mwh) \div SliderDen

\* ------------------------------------------- objective_function, per step
\* a variant of obj_discharge_amount that forgets what the grid needs
obj_discharge_amount_no_need(slack, peak_discharge_rate, room_to_min) ==
  Min2(peak_discharge_rate, room_to_min)

\* min(slack / efficiency, peak_discharge_rate, room_to_min), line 46
obj_discharge_amount(slack, peak_discharge_rate, room_to_min) ==
  LET need == DivEff(slack)
  IN IF need.k = "fin" THEN Min3(need.v, peak_discharge_rate, room_to_min)
     ELSE Min2(peak_discharge_rate, room_to_min)

\* min(abs(slack) * efficiency, peak_discharge_rate, room_to_max), line 51
obj_charge_amount(slack, peak_discharge_rate, room_to_max) ==
  Min3(MulEff(abs(slack)), peak_discharge_rate, room_to_max)

\* ------------------------------------------ canonical dispatch, per step
\* min(slack / efficiency, optimal_peak_discharge_rate, room_to_min), line 98
discharge_amount(slack, optimal_peak_discharge_rate, room_to_min) ==
  LET need == DivEff(slack)
  IN IF need.k = "fin" THEN Min3(need.v, optimal_peak_discharge_rate, room_to_min)
     ELSE Min2(optimal_peak_discharge_rate, room_to_min)

\* a variant of charge_amount that forgets the room left below the ceiling
charge_amount_no_room(slack, optimal_peak_discharge_rate, room_to_max) ==
  Min2(MulEff(abs(slack)), optimal_peak_discharge_rate)

\* min(abs(slack) * efficiency, optimal_peak_discharge_rate, room_to_max), line 104
charge_amount(slack, optimal_peak_discharge_rate, room_to_max) ==
  Min3(MulEff(abs(slack)), optimal_peak_discharge_rate, room_to_max)

\* ------------------------------------------------- Python and numpy types
\* slack and the solver's parameters are numpy scalars; the widgets' values
\* and what is computed from them alone are Python floats.  min returns one of
\* its arguments: it is the room (third argument), of the type of the charge,
\* exactly when the room is strictly the smallest.
MinIsRoom(first, power, room) ==
  IF first.k = "fin" THEN room < Min2(first.v, power) ELSE room < power

\* the type of charge -/+ amount: numpy as soon as one operand is
NumpyAfter(is_np, amount_is_room) == is_np \/ ~amount_is_room

\* amount / efficiency raises ZeroDivisionError: a Python float divided by 0.0
DivRaises(amount_is_np) == efficiency = 0 /\ ~amount_is_np

\* ------------------------------------------------------------------ Init
\* all sequences over S of length 0..n
SeqsUpTo(S, n) == UNION {[1..m -> S] : m \in 0..n}

\* the state before the script reads anything
Blank ==
  /\ pc = "read_csv"
  /\ error_reported = FALSE
  /\ min_bess_charge = 0 /\ max_bess_charge = 0
  /\ evals = 0
  /\ params = <<0, 0>>
  /\ bess_charge = 0 /\ lack_of_energy = 0 /\ excess_of_energy = Fin(0)
  /\ oi = 0 /\ bess_np = FALSE
  /\ fval = Fin(0)
  /\ result_x = <<0, 0>>
  /\ result_success = FALSE
  /\ bess_values = <<>> /\ energy_flow_values = <<>>
  /\ cycle_count = 0 /\ in_discharge_cycle = FALSE
  /\ last_bess_charge = 0 /\ i = 0 /\ last_np = FALSE
  /\ report = [status |-> "none"]

\* no upload, or one that cannot be read or has no 'Slack' column
BadUpload ==
  /\ csv \in {"none", "unreadable", "noslack"}
  /\ slack_values = <<>>
  /\ MW = 10 * Unit /\ MWh = 10 * Unit /\ efficiency = SliderDen
  /\ min_bess_charge_percent = 10 /\ max_bess_charge_percent = 90

\* the widgets' values
Widgets ==
  /\ MW \in PowerVals
  /\ MWh \in MWhVals
  /\ efficiency \in EffVals
  /\ min_bess_charge_percent \in PctVals
  /\ max_bess_charge_percent \in PctVals

Init ==
  /\ Blank
  /\ \/ BadUpload
     \/ /\ csv = "ok"
        /\ slack_values \in SeqsUpTo(SlackVals, MaxLen)
        /\ Widgets

\* --------------------------------------------------------------- actions
\* a variant of ReadCsv that reports the error and goes on
ReadCsvNoStop ==
  /\ pc = "read_csv"
  /\ pc' = "read_inputs"
  /\ error_reported' = (csv # "ok")
  /\ UNCHANGED <<inputVars, min_bess_charge, max_bess_charge, evals, objVars,
                 fval, result_x, result_success, loopVars, report>>

\* lines 13-21: without an upload the script does nothing; it reads the CSV,
\* and calls st.error and st.stop() when it cannot be read or has no 'Slack'
\* column (st.stop() ends the script run)
ReadCsv ==
  /\ pc = "read_csv"
  /\ IF csv = "ok"
     THEN pc' = "read_inputs" /\ UNCHANGED error_reported
     ELSE IF csv = "none"
     THEN pc' = "idle" /\ UNCHANGED error_reported
     ELSE pc' = "stopped" /\ error_reported' = TRUE
  /\ UNCHANGED <<inputVars, min_bess_charge, max_bess_charge, evals, objVars,
                 fval, result_x, result_success, loopVars, report>>

\* lines 24-34: read the widgets, compute the absolute charge bounds
ReadInputs ==
  /\ pc = "read_inputs"
  /\ min_bess_charge' = ChargeOf(min_bess_charge_percent, MWh)
  /\ max_bess_charge' = ChargeOf(max_bess_charge_percent, MWh)
  /\ pc' = "minimize"
  /\ UNCHANGED <<inputVars, error_reported, evals, objVars, fval, result_x, result_success,
                 loopVars, report>>

\* lines 58, 61: the initial guess; the box bounds (0, None) on both parameters
initial_guess == <<MW, MWh>>
Candidates == {x \in PowerVals \X CapVals : x[1] >= 0 /\ x[2] >= 0}

\* a variant of constraint_upper that takes the fraction of the candidate
constraint_upper_scaled(x) == ChargeOf(max_bess_charge_percent, x[2]) - x[2]

\* lines 64-67: the two 'ineq' constraints, satisfied where the value is >= 0
constraint_upper(x) == max_bess_charge - x[2]
constraint_lower(x) == x[2] - min_bess_charge

\* minimize (lines 70-76) calls objective_function: first on the initial
\* guess, then on candidates of its choice.  Lines 38-41 of the call.
ObjStart ==
  /\ pc = "minimize"
  /\ evals < MaxEvals
  /\ \E x \in Candidates \cup {initial_guess} :
        /\ evals = 0 => x = initial_guess
        /\ params' = x
  /\ bess_charge' = min_bess_charge
  /\ bess_np' = FALSE
  /\ lack_of_energy' = 0
  /\ excess_of_energy' = Fin(0)
  /\ oi' = 0
  /\ evals' = evals + 1
  /\ pc' = "objective"
  /\ UNCHANGED <<inputVars, error_reported, min_bess_charge, max_bess_charge,
                 fval, result_x, result_success, loopVars, report>>

\* the frame of the running objective_function call
ObjFrame ==
  [bess_charge |-> bess_charge, bess_np |-> bess_np,
   lack_of_energy |-> lack_of_energy, excess_of_energy |-> excess_of_energy,
   oi |-> oi, raised |-> FALSE]

\* lines 43-53: one iteration of objective_function's loop on frame f;
\* raised: line 53 raised ZeroDivisionError
ObjStepOf(f, slack, peak_discharge_rate) ==
  LET room_to_min == f.bess_charge - min_bess_charge
      disch == obj_discharge_amount(slack, peak_discharge_rate, room_to_min)
      disch_room == MinIsRoom(DivEff(slack), peak_discharge_rate, room_to_min)
      room_to_max == max_bess_charge - f.bess_charge
      chg == obj_charge_amount(slack, peak_discharge_rate, room_to_max)
      chg_room == MinIsRoom(Fin(MulEff(abs(slack))), peak_discharge_rate, room_to_max)
      chg_np == NumpyAfter(f.bess_np, chg_room)
  IN IF f.raised THEN f
     ELSE IF slack > 0
     THEN [f EXCEPT !.bess_charge = f.bess_charge - disch,
                    !.bess_np = NumpyAfter(f.bess_np, disch_room),
                    !.lack_of_energy = f.lack_of_energy + (slack - MulEff(disch)),
                    !.oi = f.oi + 1]
     ELSE IF slack < 0
     THEN [f EXCEPT !.bess_charge = f.bess_charge + chg,
                    !.bess_np = chg_np,
                    !.excess_of_energy =
                       IF DivRaises(chg_np) THEN f.excess_of_energy
                       ELSE FAdd(f.excess_of_energy,
                                 FSub(Fin(abs(slack)), DivEff(chg))),
                    !.raised = DivRaises(chg_np),
                    !.oi = f.oi + 1]
     ELSE [f EXCEPT !.oi = f.oi + 1]

\* the frame becomes f; an exception ends the run
ObjFrameBecomes(f) ==
  /\ bess_charge' = f.bess_charge
  /\ bess_np' = f.bess_np
  /\ lack_of_energy' = f.lack_of_energy
  /\ excess_of_energy' = f.excess_of_energy
  /\ oi' = f.oi
  /\ pc' = IF f.raised THEN "crashed" ELSE pc

\* lines 43-53: one iteration of objective_function's loop
ObjStep ==
  /\ pc = "objective"
  /\ oi < Len(slack_values)
  /\ ObjFrameBecomes(ObjStepOf(ObjFrame, slack_values[oi + 1], params[1]))
  /\ UNCHANGED <<inputVars, error_reported, min_bess_charge, max_bess_charge,
                 evals, params, fval, result_x, result_success, loopVars, report>>

\* the iterations lo..hi of objective_function's loop, in order
RECURSIVE ObjRunOf(_, _, _, _)
ObjRunOf(f, peak_discharge_rate, lo, hi) ==
  IF lo > hi THEN f
  ELSE IF lo = hi THEN ObjStepOf(f, slack_values[lo], peak_discharge_rate)
  ELSE LET mid == (lo + hi) \div 2
           first == ObjRunOf(f, peak_discharge_rate, lo, mid)
       IN IF first.raised THEN first
          ELSE ObjRunOf(first, peak_discharge_rate, mid + 1, hi)

\* lines 43-53: the whole loop of objective_function, as one step
ObjRun ==
  /\ pc = "objective"
  /\ oi = 0 /\ Len(slack_values) > 0
  /\ ObjFrameBecomes(ObjRunOf(ObjFrame, params[1], 1, Len(slack_values)))
  /\ UNCHANGED <<inputVars, error_reported, min_bess_charge, max_bess_charge,
                 evals, params, fval, result_x, result_success, loopVars, report>>

\* line 55: return abs(lack_of_energy - excess_of_energy); the frame is gone
ObjReturn ==
  /\ pc = "objective"
  /\ oi = Len(slack_values)
  /\ fval' = FAbs(FSub(Fin(lack_of_energy), excess_of_energy))
  /\ params' = <<0, 0>>
  /\ bess_charge' = 0 /\ lack_of_energy' = 0 /\ excess_of_energy' = Fin(0)
  /\ oi' = 0 /\ bess_np' = FALSE
  /\ pc' = "minimize"
  /\ UNCHANGED <<inputVars, error_reported, min_bess_charge, max_bess_charge,
                 evals, result_x, result_success, loopVars, report>>

\* lines 39-41: the frame a call of objective_function starts with
ObjFresh ==
  [bess_charge |-> min_bess_charge, bess_np |-> FALSE,
   lack_of_energy |-> 0, excess_of_energy |-> Fin(0),
   oi |-> 0, raised |-> FALSE]

\* lines 37-55: objective_function(x, slack_values, efficiency,
\* min_bess_charge, max_bess_charge); x is unpacked to peak_discharge_rate
\* and bess_capacity, and the loop reads peak_discharge_rate only.
\* raised: the call raised ZeroDivisionError; value: what it returned
objective_function(x) ==
  LET peak_discharge_rate == x[1]
      f == ObjRunOf(ObjFresh, peak_discharge_rate, 1, Len(slack_values))
  IN [raised |-> f.raised,
      value |-> IF f.raised THEN NaN
                ELSE FAbs(FSub(Fin(f.lack_of_energy), f.excess_of_energy))]

\* a variant of MinimizeReturn that ends the run when the solver reports
\* failure
MinimizeReturnAbortsOnFailure ==
  /\ pc = "minimize"
  /\ evals >= 1
  /\ result_x' \in Candidates \cup {initial_guess}
  /\ result_success' \in BOOLEAN
  /\ pc' = IF result_success' THEN "dispatch" ELSE "crashed"
  /\ last_bess_charge' = min_bess_charge
  /\ evals' = 0
  /\ fval' = Fin(0)
  /\ UNCHANGED <<inputVars, error_reported, min_bess_charge, max_bess_charge,
                 objVars, bess_values, energy_flow_values, cycle_count,
                 in_discharge_cycle, i, last_np, report>>

\* a variant of MinimizeReturn that leaves the dispatch state as it was
MinimizeReturnKeepsState ==
  /\ pc = "minimize"
  /\ evals >= 1
  /\ result_x' \in Candidates \cup {initial_guess}
  /\ result_success' \in BOOLEAN
  /\ evals' = 0
  /\ fval' = Fin(0)
  /\ pc' = "dispatch"
  /\ UNCHANGED <<inputVars, error_reported, min_bess_charge, max_bess_charge,
                 objVars, loopVars, report>>

\* lines 70-91: minimize returns its OptimizeResult, whatever the solver's
\* success flag; result.x is unpacked and the dispatch state is initialised.
\* The solver is a black box: result.x is any point of the box and
\* result.success any flag.  What the solver counted and held is gone with it.
MinimizeReturn ==
  /\ pc = "minimize"
  /\ evals >= 1
  /\ result_x' \in Candidates \cup {initial_guess}
  /\ result_success' \in BOOLEAN
  /\ bess_values' = <<>>
  /\ energy_flow_values' = <<>>
  /\ cycle_count' = 0
  /\ in_discharge_cycle' = FALSE
  /\ last_bess_charge' = min_bess_charge
  /\ last_np' = FALSE
  /\ i' = 0
  /\ evals' = 0
  /\ fval' = Fin(0)
  /\ pc' = "dispatch"
  /\ UNCHANGED <<inputVars, error_reported, min_bess_charge, max_bess_charge,
                 objVars, report>>

optimal_peak_discharge_rate == result_x[1]
optimal_bess_capacity == result_x[2]

\* variants of the cycle counter: one counts every step that ends at the
\* ceiling, one never clears the flag
CycleIncrementNoFlag(charge, flag) == charge >= max_bess_charge
FlagAfterNoReset(charge, flag) ==
  IF charge >= max_bess_charge THEN flag
  ELSE IF charge <= min_bess_charge THEN TRUE
  ELSE flag

\* lines 111-116: the cycle counter, on the charge a step ends with
CycleIncrement(charge, flag) == charge >= max_bess_charge /\ flag
FlagAfter(charge, flag) ==
  IF charge >= max_bess_charge THEN (IF flag THEN FALSE ELSE flag)
  ELSE IF charge <= min_bess_charge THEN TRUE
  ELSE flag

\* the state of the canonical dispatch loop
LoopState ==
  [last_bess_charge |-> last_bess_charge, last_np |-> last_np,
   bess_values |-> bess_values, energy_flow_values |-> energy_flow_values,
   cycle_count |-> cycle_count, in_discharge_cycle |-> in_discharge_cycle,
   i |-> i, raised |-> FALSE]

\* lines 93-116: one iteration of the canonical dispatch loop on state l;
\* raised: line 106 raised ZeroDivisionError
DispatchStepOf(l, slack) ==
  LET room_to_min == l.last_bess_charge - min_bess_charge
      disch == discharge_amount(slack, optimal_peak_discharge_rate, room_to_min)
      disch_room == MinIsRoom(DivEff(slack), optimal_peak_discharge_rate, room_to_min)
      room_to_max == max_bess_charge - l.last_bess_charge
      chg == charge_amount(slack, optimal_peak_discharge_rate, room_to_max)
      chg_room == MinIsRoom(Fin(MulEff(abs(slack))), optimal_peak_discharge_rate,
                            room_to_max)
      chg_np == NumpyAfter(l.last_np, chg_room)
      charge == IF slack > 0 THEN l.last_bess_charge - disch
                ELSE IF slack < 0 THEN l.last_bess_charge + chg
                ELSE l.last_bess_charge
      energy_flow == IF slack > 0 THEN Fin(MulEff(disch))
                     ELSE IF slack < 0 THEN DivEff(-chg)
                     ELSE Fin(0)
      np == IF slack > 0 THEN NumpyAfter(l.last_np, disch_room)
            ELSE IF slack < 0 THEN chg_np
            ELSE l.last_np
  IN IF l.raised THEN l
     ELSE IF slack < 0 /\ DivRaises(chg_np)
     THEN [l EXCEPT !.last_bess_charge = charge, !.last_np = np,
                    !.i = l.i + 1, !.raised = TRUE]
     ELSE [last_bess_charge |-> charge,
           last_np |-> np,
           bess_values |-> Append(l.bess_values, charge),
           energy_flow_values |-> Append(l.energy_flow_values, energy_flow),
           cycle_count |-> IF CycleIncrement(charge, l.in_discharge_cycle)
                           THEN l.cycle_count + 1 ELSE l.cycle_count,
           in_discharge_cycle |-> FlagAfter(charge, l.in_discharge_cycle),
           i |-> l.i + 1,
           raised |-> FALSE]

\* the loop state becomes l; an exception ends the run
LoopStateBecomes(l) ==
  /\ last_bess_charge' = l.last_bess_charge
  /\ last_np' = l.last_np
  /\ bess_values' = l.bess_values
  /\ energy_flow_values' = l.energy_flow_values
  /\ cycle_count' = l.cycle_count
  /\ in_discharge_cycle' = l.in_discharge_cycle
  /\ i' = l.i
  /\ pc' = IF l.raised THEN "crashed" ELSE pc

\* lines 93-116: one iteration of the canonical dispatch loop
DispatchStep ==
  /\ pc = "dispatch"
  /\ i < Len(slack_values)
  /\ LoopStateBecomes(DispatchStepOf(LoopState, slack_values[i + 1]))
  /\ UNCHANGED <<inputVars, error_reported, min_bess_charge, max_bess_charge,
                 evals, objVars, fval, result_x, result_success, report>>

\* the iterations lo..hi of the canonical dispatch loop, in order
RECURSIVE DispatchRunOf(_, _, _)
DispatchRunOf(l, lo, hi) ==
  IF lo > hi THEN l
  ELSE IF lo = hi THEN DispatchStepOf(l, slack_values[lo])
  ELSE LET mid == (lo + hi) \div 2
           first == DispatchRunOf(l, lo, mid)
       IN IF first.raised THEN first
          ELSE DispatchRunOf(first, mid + 1, hi)

\* lines 93-116: the whole canonical dispatch loop, as one step
DispatchRun ==
  /\ pc = "dispatch"
  /\ i = 0 /\ Len(slack_values) > 0
  /\ LoopStateBecomes(DispatchRunOf(LoopState, 1, Len(slack_values)))
  /\ UNCHANGED <<inputVars, error_reported, min_bess_charge, max_bess_charge,
                 evals, objVars, fval, result_x, result_success, report>>

\* lines 86-91: the state the canonical dispatch loop starts with
LoopFresh ==
  [last_bess_charge |-> min_bess_charge, last_np |-> FALSE,
   bess_values |-> <<>>, energy_flow_values |-> <<>>,
   cycle_count |-> 0, in_discharge_cycle |-> FALSE,
   i |-> 0, raised |-> FALSE]

\* ---------------------------------------------------------------- report
\* f[first] + f[first + stride] + ... (count terms), on floats
RECURSIVE FSumStride(_, _, _, _)
FSumStride(f, first, stride, count) ==
  IF count = 0 THEN Fin(0)
  ELSE IF count = 1 THEN f[first]
  ELSE LET half == count \div 2
       IN FAdd(FSumStride(f, first, stride, half),
               FSumStride(f, first + half * stride, stride, count - half))

\* the sequence of Fin(x) for x in an integer sequence
AsFloats(seq) == [n \in 1..Len(seq) |-> Fin(seq[n])]

\* a variant of SegmentCount that infers the number of rows from the length
SegmentCountInferred(seq) == Len(seq) \div hours_per_day

\* the number of rows the columns are reshaped to (lines 128, 130-132)
SegmentCount(seq) == days_per_year

\* values.reshape(days_per_year, hours_per_day): numpy raises ValueError
\* unless the sizes agree
ReshapeOk(seq) == Len(seq) = SegmentCount(seq) * hours_per_day

\* reshape(days_per_year, hours_per_day).mean(axis=0), lines 130-136: for each
\* hour of the day the sum over the days, kept with its divisor
DailyMean(f) ==
  [h \in 1..hours_per_day |->
     [sum |-> FSumStride(f, h, hours_per_day, SegmentCount(f)), n |-> SegmentCount(f)]]

\* a variant of Month that does not wrap after the twelfth block of 30 days
MonthUnwrapped(idx) == (idx \div (hours_per_day * days_per_month)) + 1

\* line 163: the month label of the row with index idx (0-based)
Month(idx) == ((idx \div (hours_per_day * days_per_month)) % months_per_year) + 1

\* x[x > 0].sum() / x[x < 0].sum() over the rows lo..hi (0-based) labelled m
RECURSIVE MonthSum(_, _, _, _, _)
MonthSum(f, m, positive, lo, hi) ==
  IF lo > hi THEN Fin(0)
  ELSE IF lo = hi
  THEN IF Month(lo) = m /\ (IF positive THEN FPos(f[lo + 1]) ELSE FNegative(f[lo + 1]))
       THEN f[lo + 1] ELSE Fin(0)
  ELSE LET mid == (lo + hi) \div 2
       IN FAdd(MonthSum(f, m, positive, lo, mid), MonthSum(f, m, positive, mid + 1, hi))

\* lines 163-174: groupby('Month') and the four sums
MonthlyStats(slack_f, flow_f) ==
  LET n == Len(slack_f)
      labels == {Month(idx) : idx \in 0..(n - 1)}
  IN [m \in labels |->
        [rows |-> Cardinality({idx \in 0..(n - 1) : Month(idx) = m}),
         lack_of_energy |-> MonthSum(slack_f, m, TRUE, 0, n - 1),
         excess_of_energy |-> MonthSum(slack_f, m, FALSE, 0, n - 1),
         energy_from_bess |-> MonthSum(flow_f, m, TRUE, 0, n - 1),
         energy_to_bess |-> MonthSum(flow_f, m, FALSE, 0, n - 1)]]

\* lines 118-194, after the loop: the cycle count is written, the three
\* columns are reshaped (ValueError ends the run), averaged, grouped by
\* month, and the table is offered for download
Report ==
  /\ pc = "dispatch"
  /\ i = Len(slack_values)
  /\ IF ReshapeOk(bess_values)
     THEN /\ report' = [status |-> "ok",
                        cycles |-> cycle_count,
                        average_bess_charge |-> DailyMean(AsFloats(bess_values)),
                        average_energy_flow |-> DailyMean(energy_flow_values),
                        average_slack |-> DailyMean(AsFloats(slack_values)),
                        monthly_stats |-> MonthlyStats(AsFloats(slack_values),
                                                       energy_flow_values),
                        exported_rows |-> Len(bess_values)]
          /\ pc' = "done"
     ELSE /\ report' = [status |-> "shape_error", cycles |-> cycle_count]
          /\ pc' = "crashed"
  /\ UNCHANGED <<inputVars, error_reported, min_bess_charge, max_bess_charge,
                 evals, objVars, fval, result_x, result_success, loopVars>>

\* ----------------------------------------------------- exact arithmetic
\* the products and quotients of the step the script is about to take are
\* whole numbers of units: the fixed point loses nothing
MulExact(x) == (x * efficiency) % SliderDen = 0
DivExact(x) == efficiency # 0 => (x * SliderDen) % efficiency = 0
StepExact(slack, power, charge) ==
  /\ slack > 0 => /\ DivExact(slack)
                  /\ MulExact(discharge_amount(slack, power, charge - min_bess_charge))
  /\ slack < 0 => /\ MulExact(abs(slack))
                  /\ DivExact(charge_amount(slack, power, max_bess_charge - charge))
ExactArithmetic ==
  /\ (min_bess_charge_percent * MWh) % SliderDen = 0
  /\ (max_bess_charge_percent * MWh) % SliderDen = 0
  /\ pc = "objective" /\ oi < Len(slack_values)
       => StepExact(slack_values[oi + 1], params[1], bess_charge)
  /\ pc = "dispatch" /\ i < Len(slack_values)
       => StepExact(slack_values[i + 1], optimal_peak_discharge_rate, last_bess_charge)

Next ==
  \/ ReadCsv
  \/ ReadInputs
  \/ ObjStart
  \/ ObjStep
  \/ ObjReturn
  \/ MinimizeReturn
  \/ DispatchStep
  \/ Report

Spec == Init /\ [][Next]_vars

\* the same script with each of its two loops taken as one step
NextRun ==
  \/ ReadCsv
  \/ ReadInputs
  \/ ObjStart
  \/ ObjRun
  \/ ObjReturn
  \/ MinimizeReturn
  \/ DispatchRun
  \/ Report

\* -------------------------------------------------- a year of hourly data
\* the slack series of length n that repeats pattern p
Repeat(p, n) == [k \in 1..n |-> p[((k - 1) % Len(p)) + 1]]

YearPatterns == {<<-9 * Unit, 9 * Unit, 5 * Unit>>}
YearLengths == {hours_per_day - 1, hours_per_day, days_per_year * hours_per_day}

InitYear ==
  /\ Blank
  /\ csv = "ok"
  /\ slack_values \in {Repeat(p, n) : p \in YearPatterns, n \in YearLengths}
  /\ MW = 10 * Unit /\ MWh = 10 * Unit
  /\ efficiency \in {SliderDen \div 2, SliderDen}
  /\ min_bess_charge_percent = 10 /\ max_bess_charge_percent = 90

SpecYear == InitYear /\ [][NextRun]_vars

\* =================================================================
\* Properties
\* =================================================================
\* the configuration the canonical dispatch runs with is valid
ValidConfig ==
  /\ min_bess_charge < max_bess_charge
  /\ efficiency > 0 /\ efficiency <= SliderDen
  /\ optimal_peak_discharge_rate >= 0

\* the configuration an objective evaluation runs with is valid
ObjValidConfig ==
  /\ min_bess_charge < max_bess_charge
  /\ efficiency > 0 /\ efficiency <= SliderDen
  /\ params[1] >= 0

\* the dispatch state has been initialised (line 91 was executed)
Dispatched == pc = "dispatch" \/ report.status # "none"

\* the canonical dispatch loop has consumed the whole series
LoopDone ==
  \/ pc = "dispatch" /\ i = Len(slack_values)
  \/ report.status # "none"

\* the state of charge after step k (before the first step for k = 0)
Soc(k) == IF k = 0 THEN min_bess_charge ELSE bess_values[k]

\* C1: under a valid configuration the state of charge starts at
\* min_bess_charge and every value appended to bess_values lies in
\* [min_bess_charge, max_bess_charge].
C1_SocWithinBounds ==
  Dispatched /\ ValidConfig =>
    /\ i = 0 => last_bess_charge = min_bess_charge
    /\ \A k \in 1..Len(bess_values) :
         min_bess_charge <= bess_values[k] /\ bess_values[k] <= max_bess_charge

\* C1 witness: a valid run clamped at the ceiling and then at the floor
C1_Witness ==
  /\ Dispatched /\ ValidConfig
  /\ Len(bess_values) >= 2
  /\ slack_values[1] < 0 /\ bess_values[1] = max_bess_charge
  /\ MulEff(abs(slack_values[1])) > max_bess_charge - min_bess_charge
  /\ slack_values[2] > 0 /\ bess_values[2] = min_bess_charge

\* step k ends at the ceiling and the step before it did not
Rises(k) == bess_values[k] >= max_bess_charge /\ Soc(k - 1) < max_bess_charge
RiseSteps == {k \in 1..Len(bess_values) : Rises(k)}

\* the state of charge rises to the ceiling exactly once and never returns
\* to the floor afterwards
RisesOnce ==
  /\ Cardinality(RiseSteps) = 1
  /\ \A k \in RiseSteps : \A j \in (k + 1)..Len(bess_values) :
       bess_values[j] > min_bess_charge

\* some step before the rise ended at the floor
FloorBeforeRise ==
  \E k \in RiseSteps : \E j \in 1..(k - 1) : bess_values[j] <= min_bess_charge

\* C2 as stated: a valid run that rises from the floor to the ceiling exactly
\* once, and never returns to the floor, ends with cycle_count = 1, also
\* when its first step is a charging step.
C2_OneRiseCountsOne ==
  LoopDone /\ ValidConfig /\ RisesOnce => cycle_count = 1

\* C2 amended: such a run ends with cycle_count = 1 when some step before
\* the one that reaches the ceiling ended at the floor, and with
\* cycle_count = 0 otherwise.
C2_OneRiseCountsOneAfterFloor ==
  LoopDone /\ ValidConfig /\ RisesOnce =>
    cycle_count = (IF FloorBeforeRise THEN 1 ELSE 0)

\* C2 witness: a finished valid run with one rise that was counted
C2_Witness ==
  /\ LoopDone /\ ValidConfig /\ RisesOnce /\ FloorBeforeRise
  /\ cycle_count = 1

\* C3: cycle_count is incremented at a step only if the step ends at or
\* above the ceiling and an earlier step ended at or below the floor with
\* no step at the ceiling (hence no increment) since; the increment clears
\* the flag.  Series [-9, 9] with min 1, max 9 ends with cycle_count 0.
C3_IncrementOnlyAfterFloor ==
  /\ [][cycle_count' # cycle_count =>
          /\ cycle_count' = cycle_count + 1
          /\ last_bess_charge' >= max_bess_charge
          /\ in_discharge_cycle /\ ~in_discharge_cycle'
          /\ \E j \in 1..Len(bess_values) :
               /\ bess_values[j] <= min_bess_charge
               /\ \A m \in (j + 1)..Len(bess_values) :
                    bess_values[m] < max_bess_charge]_vars
  /\ [](LoopDone /\ slack_values = <<-9 * Unit, 9 * Unit>>
          /\ min_bess_charge = 1 * Unit /\ max_bess_charge = 9 * Unit
          => cycle_count = 0)

\* C3 witness: an increment has just happened, after a step at the floor
C3_Witness ==
  /\ pc = "dispatch" /\ cycle_count = 1 /\ ~in_discharge_cycle
  /\ Len(bess_values) >= 2
  /\ bess_values[Len(bess_values)] >= max_bess_charge
  /\ bess_values[Len(bess_values) - 1] <= min_bess_charge

\* x >= y on floats
FGe(x, y) == x.k = "fin" /\ y.k = "fin" /\ x.v >= y.v

\* C4: under a valid configuration the objective's unmet deficit and
\* unabsorbed surplus are >= 0 after every prefix and never decrease, and
\* in the canonical loop the energy flow of a deficit step lies in
\* [0, slack], that of a surplus step in [-|slack|, 0], and that of a
\* zero step is 0.
C4_TotalsNonNegative ==
  /\ [](pc = "objective" /\ ObjValidConfig =>
          /\ lack_of_energy >= 0
          /\ FGe(excess_of_energy, Fin(0)))
  /\ [][pc = "objective" /\ ObjValidConfig /\ oi' = oi + 1 =>
          /\ lack_of_energy' >= lack_of_energy
          /\ lack_of_energy' <= lack_of_energy + abs(slack_values[oi + 1])
          /\ FGe(excess_of_energy', excess_of_energy)
          /\ FGe(FAdd(excess_of_energy, Fin(abs(slack_values[oi + 1]))),
                 excess_of_energy')]_vars
  /\ [](Dispatched /\ ValidConfig =>
          \A k \in 1..Len(energy_flow_values) :
            LET flow == energy_flow_values[k]
                slack == slack_values[k]
            IN /\ flow.k = "fin"
               /\ slack > 0 => 0 <= flow.v /\ flow.v <= slack
               /\ slack < 0 => slack <= flow.v /\ flow.v <= 0
               /\ slack = 0 => flow.v = 0)

\* C4 witness: a valid evaluation that left part of a deficit unmet and
\* part of a surplus unabsorbed while the battery delivered energy
C4_Witness ==
  /\ pc = "objective" /\ ObjValidConfig
  /\ lack_of_energy > 0
  /\ excess_of_energy.k = "fin" /\ excess_of_energy.v > 0
  /\ \E k \in 1..oi : slack_values[k] > 0 /\ lack_of_energy < slack_values[k]

\* C5: a step with slack = 0 leaves the state of charge and the cycle count
\* unchanged and records energy flow 0; an all-zero series ends with every
\* energy flow 0, cycle_count 0 and every state of charge min_bess_charge.
C5_ZeroSlackNoChange ==
  /\ [][pc = "dispatch" /\ i < Len(slack_values) /\ i' = i + 1
          /\ slack_values[i + 1] = 0 =>
          /\ last_bess_charge' = last_bess_charge
          /\ cycle_count' = cycle_count
          /\ bess_values' = Append(bess_values, last_bess_charge)
          /\ energy_flow_values' = Append(energy_flow_values, Fin(0))]_vars
  /\ [](LoopDone /\ (\A k \in 1..Len(slack_values) : slack_values[k] = 0) =>
          /\ Len(bess_values) = Len(slack_values)
          /\ Len(energy_flow_values) = Len(slack_values)
          /\ \A k \in 1..Len(bess_values) :
               /\ bess_values[k] = min_bess_charge
               /\ energy_flow_values[k] = Fin(0)
          /\ cycle_count = 0)

\* C5 witness: a zero step taken at the ceiling right after a counted cycle
C5_Witness ==
  /\ pc = "dispatch" /\ Len(bess_values) >= 3
  /\ slack_values[Len(bess_values)] = 0
  /\ bess_values[Len(bess_values)] >= max_bess_charge
  /\ min_bess_charge < max_bess_charge
  /\ cycle_count = 1

\* C6: a deficit step that begins at min_bess_charge discharges 0, leaves
\* the state of charge unchanged, records energy flow 0 and adds the whole
\* slack to the unmet deficit; a surplus step that begins at max_bess_charge
\* charges 0 and adds the whole |slack| to the unabsorbed surplus.  Slack
\* [5, -5] with power 10, efficiency 1, min 1, max 9 gives state of charge
\* 1 then 6, unmet deficit 5 and unabsorbed surplus 0.
C6_NoExchangeAtBound ==
  /\ [][pc = "objective" /\ oi < Len(slack_values) /\ oi' = oi + 1 =>
          LET slack == slack_values[oi + 1]
          IN /\ slack > 0 /\ bess_charge = min_bess_charge =>
                  /\ bess_charge' = bess_charge
                  /\ lack_of_energy' = lack_of_energy + slack
             /\ slack < 0 /\ bess_charge = max_bess_charge =>
                  /\ bess_charge' = bess_charge
                  /\ excess_of_energy' = FAdd(excess_of_energy, Fin(abs(slack)))]_vars
  /\ [][pc = "dispatch" /\ i < Len(slack_values) /\ i' = i + 1 =>
          LET slack == slack_values[i + 1]
          IN /\ slack > 0 /\ last_bess_charge = min_bess_charge =>
                  /\ last_bess_charge' = last_bess_charge
                  /\ energy_flow_values' = Append(energy_flow_values, Fin(0))
             /\ slack < 0 /\ last_bess_charge = max_bess_charge =>
                  /\ last_bess_charge' = last_bess_charge
                  /\ energy_flow_values' = Append(energy_flow_values, Fin(0))]_vars
  /\ [](/\ slack_values = <<5 * Unit, -5 * Unit>>
        /\ efficiency = SliderDen
        /\ min_bess_charge = 1 * Unit /\ max_bess_charge = 9 * Unit
        =>
        /\ LoopDone /\ optimal_peak_discharge_rate = 10 * Unit =>
             bess_values = <<1 * Unit, 6 * Unit>>
        /\ pc = "objective" /\ params[1] = 10 * Unit /\ oi = 2 =>
             /\ bess_charge = 6 * Unit
             /\ lack_of_energy = 5 * Unit
             /\ excess_of_energy = Fin(0))

\* C6 restricted to efficiency > 0 (what the code does satisfy)
C6_NoExchangeAtBoundPositiveEfficiency ==
  /\ [][efficiency > 0 /\ pc = "objective" /\ oi < Len(slack_values) /\ oi' = oi + 1 =>
          LET slack == slack_values[oi + 1]
          IN /\ slack > 0 /\ bess_charge = min_bess_charge =>
                  /\ bess_charge' = bess_charge
                  /\ lack_of_energy' = lack_of_energy + slack
             /\ slack < 0 /\ bess_charge = max_bess_charge =>
                  /\ bess_charge' = bess_charge
                  /\ excess_of_energy' = FAdd(excess_of_energy, Fin(abs(slack)))]_vars
  /\ [][efficiency > 0 /\ pc = "dispatch" /\ i < Len(slack_values) /\ i' = i + 1 =>
          LET slack == slack_values[i + 1]
          IN /\ slack > 0 /\ last_bess_charge = min_bess_charge =>
                  /\ last_bess_charge' = last_bess_charge
                  /\ energy_flow_values' = Append(energy_flow_values, Fin(0))
             /\ slack < 0 /\ last_bess_charge = max_bess_charge =>
                  /\ last_bess_charge' = last_bess_charge
                  /\ energy_flow_values' = Append(energy_flow_values, Fin(0))]_vars

\* C7: a configuration with efficiency = 0 is rejected before any
\* simulation: no step of objective_function or of the canonical dispatch
\* loop is executed and no result is produced.
C7_ZeroEfficiencyRejected ==
  csv = "ok" /\ efficiency = 0 =>
    /\ oi = 0 /\ i = 0
    /\ bess_values = <<>> /\ energy_flow_values = <<>>
    /\ report.status = "none"

\* C8: a configuration with min_bess_charge >= max_bess_charge is rejected:
\* no optimization or dispatch step is executed and no result is produced.
C8_InvertedBoundsRejected ==
  /\ csv = "ok"
  /\ ChargeOf(min_bess_charge_percent, MWh) >= ChargeOf(max_bess_charge_percent, MWh)
  => /\ oi = 0 /\ i = 0
     /\ bess_values = <<>> /\ energy_flow_values = <<>>
     /\ report.status = "none"

\* the report was attempted (the dispatch loop is over)
Reported == report.status # "none"

\* the averaged profile of a column whose rows at hour h all equal c[h]
ProfileOf(c) == [h \in 1..hours_per_day |-> [sum |-> Fin(days_per_year * c[h]),
                                               n |-> days_per_year]]

C10_BadUploadStops ==
  csv \in {"unreadable", "noslack"} =>
    /\ pc \in {"read_csv", "stopped"}
    /\ pc = "stopped" <=> error_reported
    /\ evals = 0 /\ oi = 0 /\ i = 0
    /\ bess_values = <<>> /\ energy_flow_values = <<>>
    /\ report.status = "none"

\* C10 witness: the run stopped on a table without a 'Slack' column
C10_Witness ==
  csv = "noslack" /\ pc = "stopped" /\ error_reported

\* C11: whether the solver reports success or failure, minimize returns to
\* the script: a step that leaves the optimization either begins an objective
\* evaluation or hands result.x, with the success flag of either value, to
\* the freshly initialised canonical dispatch; the flag and result.x stay
\* with the run, and after a reported failure the dispatch loop runs as far
\* as after a reported success.
C11_SolverFlagNeverAborts ==
  /\ [][pc = "minimize" /\ pc' # "minimize" =>
          \/ pc' = "objective"
          \/ /\ pc' = "dispatch"
             /\ result_success' \in BOOLEAN
             /\ result_x' \in Candidates \cup {initial_guess}
             /\ i' = 0 /\ bess_values' = <<>>
             /\ last_bess_charge' = min_bess_charge]_vars
  /\ [][pc = "dispatch" =>
          /\ UNCHANGED <<result_x, result_success>>
          /\ pc' \in {"dispatch", "done", "crashed"}]_vars
  /\ [](pc = "crashed" /\ Dispatched /\ ~result_success =>
          \/ report.status = "shape_error"
          \/ efficiency = 0 /\ i > 0 /\ slack_values[i] < 0)

\* C11 witness: the solver reported failure and the canonical dispatch loop
\* ran over the whole series with the result.x it returned
C11_Witness ==
  /\ pc = "dispatch" /\ ~result_success
  /\ i = Len(slack_values) /\ i >= 2
  /\ Len(bess_values) = i
  /\ result_x # initial_guess

\* C12: during an evaluation of objective_function on a candidate (power,
\* capacity) the minimum and maximum state-of-charge bounds in use are the
\* charge fractions of the candidate capacity, so that candidates of equal
\* power and different capacity are evaluated with different bounds.
C12_BoundsScaleWithCapacity ==
  pc = "objective" =>
    /\ min_bess_charge = ChargeOf(min_bess_charge_percent, params[2])
    /\ max_bess_charge = ChargeOf(max_bess_charge_percent, params[2])
    /\ oi = 0 => bess_charge = ChargeOf(min_bess_charge_percent, params[2])

\* what the code does instead: the bounds of every evaluation are the
\* fractions of the MWh input, and two candidates of equal power get the
\* same objective value whatever their capacities
C12_ObjectiveIgnoresCapacity ==
  /\ pc = "objective" =>
       /\ min_bess_charge = ChargeOf(min_bess_charge_percent, MWh)
       /\ max_bess_charge = ChargeOf(max_bess_charge_percent, MWh)
  /\ pc = "minimize" =>
       \A x \in Candidates : \A y \in Candidates :
         x[1] = y[1] => objective_function(x) = objective_function(y)

\* the canonical dispatch loop raised ZeroDivisionError (line 106)
DispatchRaised == pc = "crashed" /\ evals = 0 /\ report.status = "none"

\* C13: every canonical dispatch run, and every replay inside
\* objective_function, starts from the fresh state (state of charge
\* min_bess_charge, flag false, cycle count 0, empty trajectories, totals 0)
\* and what it has computed after any number of steps is a function of the
\* slack series, the configuration and the power limit alone: it equals the
\* replay of the same steps from the fresh state, whatever evaluations came
\* before.  Hence two runs on identical inputs give identical trajectories
\* and cycle count.
C13_FreshAndDeterministic ==
  /\ pc = "dispatch" /\ i = 0 => LoopState = LoopFresh
  /\ pc = "objective" /\ oi = 0 => ObjFrame = ObjFresh
  /\ pc = "dispatch" \/ report.status # "none" =>
       LoopState = DispatchRunOf(LoopFresh, 1, i)
  /\ DispatchRaised =>
       LoopState = [DispatchRunOf(LoopFresh, 1, i) EXCEPT !.raised = FALSE]
  /\ pc = "objective" =>
       ObjFrame = ObjRunOf(ObjFresh, params[1], 1, oi)

\* C13 witness: a dispatch run that counted a cycle, finished after the
\* solver had made its evaluations
C13_Witness ==
  /\ pc = "dispatch" /\ i = Len(slack_values) /\ i >= 3
  /\ cycle_count = 1
  /\ bess_values[1] # bess_values[2]
  /\ LoopState = DispatchRunOf(LoopFresh, 1, i)

\* the frame of objective_function after its first k steps, called with the
\* power limit of the canonical run
ObjAfter(k) == ObjRunOf(ObjFresh, optimal_peak_discharge_rate, 1, k)

\* the sum over the deficit steps among the first k of slack - energy_flow
RECURSIVE DeficitLeft(_)
DeficitLeft(k) ==
  IF k = 0 THEN Fin(0)
  ELSE FAdd(DeficitLeft(k - 1),
            IF slack_values[k] > 0
            THEN FSub(Fin(slack_values[k]), energy_flow_values[k])
            ELSE Fin(0))

\* the sum over the surplus steps among the first k of |slack| - |energy_flow|
RECURSIVE SurplusLeft(_)
SurplusLeft(k) ==
  IF k = 0 THEN Fin(0)
  ELSE FAdd(SurplusLeft(k - 1),
            IF slack_values[k] < 0
            THEN FSub(Fin(abs(slack_values[k])), FAbs(energy_flow_values[k]))
            ELSE Fin(0))

\* the replay inside objective_function, given the power limit of the
\* canonical run, agrees with the canonical run on its first k steps
ReplayAgrees(k) ==
  LET f == ObjAfter(k)
  IN /\ ~f.raised
     /\ f.bess_charge = Soc(k)
     /\ Fin(f.lack_of_energy) = DeficitLeft(k)
     /\ f.excess_of_energy = SurplusLeft(k)

\* C14: for the same slack series, power limit, efficiency and bounds the
\* replay inside objective_function and the canonical dispatch loop have the
\* same state of charge after every step, and the objective's lack_of_energy
\* is the sum over deficit steps of slack - energy_flow and its
\* excess_of_energy the sum over surplus steps of |slack| - |energy_flow| of
\* the canonical run.
C14_ObjectiveReplaysDispatch ==
  pc = "dispatch" \/ report.status # "none" =>
    \A k \in 0..Len(bess_values) : ReplayAgrees(k)

\* C14 where min_bess_charge <= max_bess_charge (what the code does satisfy)
C14_ObjectiveReplaysDispatchOrderedBounds ==
  /\ pc = "dispatch" \/ report.status # "none"
  /\ min_bess_charge <= max_bess_charge
  => \A k \in 0..Len(bess_values) : ReplayAgrees(k)

\* C14, the state of charge alone, in every configuration
C14_SameStateOfCharge ==
  pc = "dispatch" \/ report.status # "none" =>
    \A k \in 0..Len(bess_values) :
       ~ObjAfter(k).raised /\ ObjAfter(k).bess_charge = Soc(k)

\* a step of the canonical dispatch loop / of objective_function's loop
DispatchStepTaken == pc = "dispatch" /\ i < Len(slack_values) /\ i' = i + 1
ObjStepTaken == pc = "objective" /\ oi < Len(slack_values) /\ oi' = oi + 1

\* the amounts of the step about to be taken are >= 0 and the state of
\* charge does not move against the sign of the slack
AmountsNonNegative ==
  /\ DispatchStepTaken =>
       LET slack == slack_values[i + 1]
       IN /\ slack > 0 =>
               /\ discharge_amount(slack, optimal_peak_discharge_rate,
                                   last_bess_charge - min_bess_charge) >= 0
               /\ last_bess_charge' <= last_bess_charge
          /\ slack < 0 =>
               /\ charge_amount(slack, optimal_peak_discharge_rate,
                                max_bess_charge - last_bess_charge) >= 0
               /\ last_bess_charge' >= last_bess_charge
  /\ ObjStepTaken =>
       LET slack == slack_values[oi + 1]
       IN /\ slack > 0 =>
               /\ obj_discharge_amount(slack, params[1],
                                       bess_charge - min_bess_charge) >= 0
               /\ bess_charge' <= bess_charge
          /\ slack < 0 =>
               /\ obj_charge_amount(slack, params[1],
                                    max_bess_charge - bess_charge) >= 0
               /\ bess_charge' >= bess_charge

\* C15: in every configuration that reaches the dispatch loop (any
\* power >= 0, any two charge fractions of the sliders) the discharge amount
\* and the charge amount of every step are >= 0, so the state of charge
\* never rises on a deficit step and never falls on a surplus step.
C15_AmountsNonNegative == [][AmountsNonNegative]_vars

\* C15 where min_bess_charge <= max_bess_charge (what the code does satisfy)
C15_AmountsNonNegativeOrderedBounds ==
  [][min_bess_charge <= max_bess_charge => AmountsNonNegative]_vars

\* the state of charge changes by at most the power limit in use
ChangeWithinPower ==
  /\ DispatchStepTaken =>
       abs(last_bess_charge' - last_bess_charge) <= optimal_peak_discharge_rate
  /\ ObjStepTaken => abs(bess_charge' - bess_charge) <= params[1]

\* C16: at every step of the dispatch the absolute change of the state of
\* charge is at most the power limit in use (optimal_peak_discharge_rate in
\* the canonical loop, peak_discharge_rate in objective_function), for every
\* slack value.
C16_ChangeWithinPower == [][ChangeWithinPower]_vars

\* C16 where min_bess_charge <= max_bess_charge (what the code does satisfy)
C16_ChangeWithinPowerOrderedBounds ==
  [][min_bess_charge <= max_bess_charge => ChangeWithinPower]_vars

\* the solver is at work: minimize has been called and has not returned
Optimizing == pc \in {"minimize", "objective"}

\* C17: the two inequality constraints bound the candidate capacity x[1] by
\* constants computed once from the MWh input (min fraction * MWh <= x[1] <=
\* max fraction * MWh), which no evaluation on a candidate changes; hence
\* the initial guess [MW, MWh] violates the upper constraint whenever
\* MWh > 0 and the maximum charge fraction is below 1.
C17_ConstraintsUseInitialCapacity ==
  /\ [](Optimizing =>
          /\ \A x \in Candidates \cup {initial_guess} :
               /\ constraint_upper(x) = ChargeOf(max_bess_charge_percent, MWh) - x[2]
               /\ constraint_lower(x) = x[2] - ChargeOf(min_bess_charge_percent, MWh)
          /\ MWh > 0 /\ max_bess_charge_percent < SliderDen =>
               constraint_upper(initial_guess) < 0)
  /\ [][Optimizing => UNCHANGED <<min_bess_charge, max_bess_charge>>]_vars

\* C17 witness: the solver evaluates a candidate of another capacity than
\* the MWh input, feasible for the constants, while the initial guess is not
C17_Witness ==
  /\ pc = "objective" /\ oi >= 1
  /\ params[2] # MWh
  /\ constraint_upper(params) >= 0 /\ constraint_lower(params) >= 0
  /\ constraint_upper(initial_guess) < 0
  /\ ChargeOf(max_bess_charge_percent, params[2]) - params[2] < 0

\* the sum of the positive (or of the negative) values of f at the rows
\* lo..hi (0-based)
RECURSIVE RangeSum(_, _, _, _)
RangeSum(f, positive, lo, hi) ==
  IF lo > hi THEN Fin(0)
  ELSE IF lo = hi
  THEN IF (IF positive THEN FPos(f[lo + 1]) ELSE FNegative(f[lo + 1]))
       THEN f[lo + 1] ELSE Fin(0)
  ELSE LET mid == (lo + hi) \div 2
       IN FAdd(RangeSum(f, positive, lo, mid), RangeSum(f, positive, mid + 1, hi))

\* the four sums over the rows lo..hi and, when lo2 <= hi2, lo2..hi2 too
TotalsOver(lo, hi, lo2, hi2) ==
  LET slack_f == AsFloats(slack_values)
      both(f, positive) == FAdd(RangeSum(f, positive, lo, hi),
                                RangeSum(f, positive, lo2, hi2))
  IN [rows |-> (hi - lo + 1) + (IF lo2 <= hi2 THEN hi2 - lo2 + 1 ELSE 0),
      lack_of_energy |-> both(slack_f, TRUE),
      excess_of_energy |-> both(slack_f, FALSE),
      energy_from_bess |-> both(energy_flow_values, TRUE),
      energy_to_bess |-> both(energy_flow_values, FALSE)]

\* C18: the month label of step index i is (i div 720) mod 12 + 1, always
\* in 1..12; for an 8760-step series the steps 8640..8759 wrap to month 1,
\* so the monthly totals of month 1 aggregate 840 steps (0..719 and
\* 8640..8759) and those of months 2..12 aggregate 720 steps each, and
\* every step is counted in exactly one month.
C18_MonthLabelsWrap ==
  /\ \A idx \in 0..(Len(slack_values) - 1) :
       /\ Month(idx) = ((idx \div 720) % 12) + 1
       /\ Month(idx) \in 1..12
  /\ report.status = "ok" =>
       /\ Len(slack_values) = 8760
       /\ \A idx \in 8640..8759 : Month(idx) = 1
       /\ DOMAIN report.monthly_stats = 1..12
       /\ report.monthly_stats[1] = TotalsOver(0, 719, 8640, 8759)
       /\ report.monthly_stats[1].rows = 840
       /\ \A m \in 2..12 :
            /\ report.monthly_stats[m] = TotalsOver(720 * (m - 1), 720 * m - 1, 1, 0)
            /\ report.monthly_stats[m].rows = 720
       /\ 840 + 11 * 720 = Len(slack_values)

\* C18 witness: the monthly totals of a year were computed, and month 1,
\* with its 840 steps, has more unmet deficit than month 12 with its 720
C18_Witness ==
  /\ report.status = "ok"
  /\ report.monthly_stats[1].rows = 840
  /\ report.monthly_stats[12].rows = 720
  /\ FPos(FSub(report.monthly_stats[1].lack_of_energy,
               report.monthly_stats[12].lack_of_energy))
  /\ FNegative(report.monthly_stats[1].energy_to_bess)

====
